---- MODULE Spec2Model ----
(***************************************************************************)
(* RandMeth, the randomization-method generator of                         *)
(* gstools/field/generator.py, as a state machine.                         *)
(*                                                                         *)
(* The state is the private fields of one RandMeth object.  Python values  *)
(* are records tagged with their class in the field "cls", so that None,   *)
(* np.nan, ints, covariance models and arrays can be told apart.           *)
(***************************************************************************)
EXTENDS Integers, FiniteSets, Sequences, TLC

(* ---------------------------------------------------------------- bounds *)

\* int seeds the callers pass are 1..MaxSeed
MaxSeed == 1
\* mode numbers the callers pass are 1..MaxModeNo
MaxModeNo == 2
\* calls that end with an error of the random source, in one behaviour
MaxFailures == 1
\* chunk_tmp_size values the callers pass are 1..MaxChunkTmpSize
MaxChunkTmpSize == 3
\* the generators that are called have 1..MaxCallModeNo modes
MaxCallModeNo == 4
\* a call is given 1..MaxPoints points
MaxPoints == 3
\* MemoryErrors in one call
MaxRetries == 1
\* the values a draw of the nugget can take are 1..MaxNugget
MaxNugget == 2

(* --------------------------------------------------------- Python values *)

None == [cls |-> "NoneType"]

\* np.nan, the default of update's seed parameter ("keep the actual seed")
NaN == [cls |-> "float"]

PyInt(n) == [cls |-> "int", val |-> n]

\* the seeds the documentation allows: an int or None
Seeds == {PyInt(n) : n \in 1..MaxSeed} \cup {None}

\* update's seed parameter: an int, None or np.nan
UpdateSeeds == Seeds \cup {NaN}

\* instances of gstools.CovModel, by the attributes RandMeth reads
CovModel(dim, var, nugget, len_scale, has_ppf) ==
    [cls |-> "CovModel", dim |-> dim, var |-> var, nugget |-> nugget,
     len_scale |-> len_scale, has_ppf |-> has_ppf]

CovModels ==
    { CovModel(1, 1, 0, 1, TRUE),
      CovModel(3, 2, 1, 2, FALSE) }

\* the models of the generators that are called: one of each dimension
CallModels == CovModels \cup { CovModel(2, 1, 0, 1, TRUE) }

\* something that is no CovModel
NotAModel == [cls |-> "object"]

ModelArgs == CovModels \cup {NotAModel}

\* isinstance(model, CovModel)
IsCovModel(m) == m.cls = "CovModel"

\* np.isnan(seed), for the seeds update is given (an int or np.nan)
isnan(s) == s.cls = "float"

(* ------------------------------------------------------------- the state *)

VARIABLES
    pc,             \* "new": __init__ before its call of update; "idle": constructed,
                    \* between two calls; "try": in the while loop of __call__;
                    \* "except": in its except clause, past the attempts that
                    \* chunk_no_exp counts; "dead": __init__ raised, no object
    mode_no,        \* self._mode_no
    chunk_tmp_size, \* self.chunk_tmp_size
    model,          \* self._model
    seed,           \* self._seed
    rng,            \* self._rng
    z_1,            \* self._z_1
    z_2,            \* self._z_2
    cov_sample,     \* self._cov_sample
    npts,           \* __call__: np.prod(summed_modes.shape), the number of points
    coords,         \* __call__: how many of x, y, z are given (are not None)
    chunk_no_exp,   \* __call__: chunk_no_exp
    chunk,          \* __call__: the chunk the for loop is at
    summed_modes,   \* __call__: summed_modes, as how often each mode has been added
    result,         \* what the last __call__ that returned has returned, with the
                    \* coordinates it was given; None when the caller has dropped it
    nfail,          \* how many calls have ended with an error of the random source
    caller,         \* the model object a caller holds and passes to update, with
                    \* whether self._model is that very object; None: not followed
    last            \* the call that led to this state, its arguments and how it ended

\* the locals of __call__ and its result
callvars == <<npts, coords, chunk_no_exp, chunk, summed_modes, result>>

vars == <<pc, mode_no, chunk_tmp_size, model, seed, rng, z_1, z_2, cov_sample,
          npts, coords, chunk_no_exp, chunk, summed_modes, result, nfail, caller,
          last>>

(* ------------------------------------------------------ the random source *)

\* RNG(seed): the stream of a random source seeded with `s`.  An int seed fixes
\* the stream; the seed None takes it from OS entropy, so that two seedings with
\* None give two streams.
RNG(s) == [cls |-> "RNG", seed |-> s]

\* An array object, `rows` x `len` (rows = 0: one axis), holding draw number `draw`
\* of `stream` from the distribution `dist`.  `run` tells the runs of _set_seed
\* apart that made the arrays the generator holds: 1 for the oldest of them, 2 for
\* the next.  Two held arrays are of one run exactly when their `run` is equal.
ndarray(run, rows, len, stream, draw, dist) ==
    [cls |-> "ndarray", run |-> run, rows |-> rows, len |-> len,
     stream |-> stream, draw |-> draw, dist |-> dist]

\* self._rng.random.normal(size=n)
normal(run, stream, draw, n) == ndarray(run, 0, n, stream, draw, [kind |-> "normal"])

\* rad * sphere_coord: the radii drawn from the model's radial spectral density,
\* by its ppf when it has one and from ln_spectral_rad_pdf otherwise, times the
\* directions drawn on the model's dim-sphere
spatial(run, stream, mdl, n) ==
    ndarray(run, mdl.dim, n, stream, 4,
            [kind |-> IF mdl.has_ppf THEN "sample_dist" ELSE "sample_ln_pdf",
             model |-> mdl])

\* the statements of _set_seed that call the random source, in order, each of which
\* may raise: RNG(seed), the two draws of normal samples, and the draws of the
\* directions and of the radii that make cov_sample
Statements == <<"_rng", "z_1", "z_2", "cov_sample">>

\* `fail` = 0: nothing raises; `fail` = i: statement i raises
FailPoints == 0..Len(Statements)

\* statement i of _set_seed has completed
Done(i, fail) == fail = 0 \/ i < fail

\* the attributes that hold the ModeSet
ModeSet == {"z_1", "z_2", "cov_sample"}

\* the attributes of the ModeSet that a run of _set_seed rebinds to a new array
Rebound(fail) ==
    {Statements[i] : i \in {j \in 2..Len(Statements) : Done(j, fail)}}

\* the run numbers of the held arrays `as`, the oldest run first, without gaps
Renumbered(a, as) ==
    IF a.cls # "ndarray" THEN a
    ELSE [a EXCEPT !.run =
             Cardinality({b.run : b \in {c \in as : c.cls = "ndarray" /\ c.run <= a.run}})]

(* ------------------------------------------------------------- _set_seed *)

\* the record of a call: what was called, with what, how it ended, and which
\* attributes of the ModeSet it has rebound
Call(op, m, s, n, out, rebound) ==
    [op |-> op, model |-> m, seed |-> s, n |-> n, out |-> out, rebound |-> rebound]

\* how a call that ran _set_seed with failure point `fail` ends
Outcome(fail) == IF fail = 0 THEN "ok" ELSE "RandomError"

\* _set_seed(new_seed), run with the snapshot `mdl` and the mode number `n`
\* that the caller has just stored
set_seed(new_seed, mdl, n, fail) ==
    LET k == Cardinality(ModeSet) + 1
        stream == RNG(new_seed)
        a1 == IF Done(2, fail) THEN normal(k, stream, 1, n) ELSE z_1
        a2 == IF Done(3, fail) THEN normal(k, stream, 2, n) ELSE z_2
        a3 == IF Done(4, fail) THEN spatial(k, stream, mdl, n) ELSE cov_sample
    IN  /\ seed' = new_seed
        /\ rng' = IF Done(1, fail) THEN stream ELSE rng
        /\ z_1' = Renumbered(a1, {a1, a2, a3})
        /\ z_2' = Renumbered(a2, {a1, a2, a3})
        /\ cov_sample' = Renumbered(a3, {a1, a2, a3})

\* a call `op` that goes through _set_seed(new_seed), with every way it can end
resample(op, m, s, narg, new_seed, mdl, n) ==
    \E fail \in FailPoints :
        /\ fail # 0 => nfail < MaxFailures
        /\ nfail' = IF fail # 0 THEN nfail + 1 ELSE nfail
        /\ set_seed(new_seed, mdl, n, fail)
        /\ last' = Call(op, m, s, narg, Outcome(fail), Rebound(fail))

(* ---------------------------------------------------------------- update *)

\* an update that samples again whether or not the model has changed
update_always(op, m, s) ==
    IF IsCovModel(m)
    THEN /\ model' = m
         /\ IF s = None \/ ~isnan(s)
            THEN resample(op, m, s, 0, s, m, mode_no)
            ELSE resample(op, m, s, 0, seed, m, mode_no)
    ELSE /\ UNCHANGED <<model, seed, rng, z_1, z_2, cov_sample, nfail>>
         /\ last' = Call(op, m, s, 0, "ValueError", {})

\* an update that, told to keep the seed, seeds the random source afresh
update_fresh_seed(op, m, s) ==
    IF IsCovModel(m)
    THEN IF model # m
         THEN /\ model' = m
              /\ IF s = None \/ ~isnan(s)
                 THEN resample(op, m, s, 0, s, m, mode_no)
                 ELSE resample(op, m, s, 0, None, m, mode_no)
         ELSE /\ UNCHANGED <<model, seed, rng, z_1, z_2, cov_sample, nfail>>
              /\ last' = Call(op, m, s, 0, "ok", {})
    ELSE /\ UNCHANGED <<model, seed, rng, z_1, z_2, cov_sample, nfail>>
         /\ last' = Call(op, m, s, 0, "ValueError", {})

\* an update that stores the object before it finds that it is no CovModel
update_store_first(op, m, s) ==
    IF IsCovModel(m)
    THEN IF model # m
         THEN /\ model' = m
              /\ IF s = None \/ ~isnan(s)
                 THEN resample(op, m, s, 0, s, m, mode_no)
                 ELSE resample(op, m, s, 0, seed, m, mode_no)
         ELSE /\ UNCHANGED <<model, seed, rng, z_1, z_2, cov_sample, nfail>>
              /\ last' = Call(op, m, s, 0, "ok", {})
    ELSE /\ model' = m
         /\ UNCHANGED <<seed, rng, z_1, z_2, cov_sample, nfail>>
         /\ last' = Call(op, m, s, 0, "ValueError", {})

\* update(model, seed), called as `op` (by __init__, by a caller, by the model setter)
update(op, m, s) ==
    IF IsCovModel(m)
    THEN IF model # m
         THEN /\ model' = m
              /\ IF s = None \/ ~isnan(s)
                 THEN resample(op, m, s, 0, s, m, mode_no)
                 ELSE resample(op, m, s, 0, seed, m, mode_no)
         ELSE /\ UNCHANGED <<model, seed, rng, z_1, z_2, cov_sample, nfail>>
              /\ last' = Call(op, m, s, 0, "ok", {})
    ELSE /\ UNCHANGED <<model, seed, rng, z_1, z_2, cov_sample, nfail>>
         /\ last' = Call(op, m, s, 0, "ValueError", {})

(* ----------------------------------------------------------- seed setter *)

\* the outcomes of `a is b`.  Objects of different value are different objects and
\* None is one object; whether two equal ints (or two NaN floats) are one object
\* depends on where they come from (CPython shares only small int literals), so
\* both outcomes happen.
SameObject(a, b) ==
    IF a # b THEN {FALSE} ELSE IF a = None THEN {TRUE} ELSE BOOLEAN

\* a seed setter with its test turned round: it samples when the new seed is the
\* stored object
seed_set_inverted(op, new_seed, stored) ==
    \E same \in SameObject(new_seed, stored) :
        IF same
        THEN resample(op, None, new_seed, 0, new_seed, model, mode_no)
        ELSE /\ seed' = stored
             /\ UNCHANGED <<rng, z_1, z_2, cov_sample, nfail>>
             /\ last' = Call(op, None, new_seed, 0, "ok", {})

\* a seed setter that compares with the seed the generator had when the call began
seed_set_by_value(op, new_seed, stored) ==
    IF new_seed # seed
    THEN resample(op, None, new_seed, 0, new_seed, model, mode_no)
    ELSE /\ seed' = stored
         /\ UNCHANGED <<rng, z_1, z_2, cov_sample, nfail>>
         /\ last' = Call(op, None, new_seed, 0, "ok", {})

\* the seed setter, entered with `stored` in self._seed
seed_set(op, new_seed, stored) ==
    \E same \in SameObject(new_seed, stored) :
        IF ~same
        THEN resample(op, None, new_seed, 0, new_seed, model, mode_no)
        ELSE /\ seed' = stored
             /\ UNCHANGED <<rng, z_1, z_2, cov_sample, nfail>>
             /\ last' = Call(op, None, new_seed, 0, "ok", {})

(* -------------------------------------------------------- mode_no setter *)

\* a mode_no setter that stores the number and leaves the modes as they are
mode_no_set_only(n) ==
    /\ mode_no' = n
    /\ UNCHANGED <<seed, rng, z_1, z_2, cov_sample, nfail>>
    /\ last' = Call("mode_no", None, None, n, "ok", {})

\* the mode_no setter: self._mode_no = mode_no, then _set_seed(self._seed)
mode_no_set(n) ==
    /\ mode_no' = n
    /\ resample("mode_no", None, None, n, seed, model, n)

(* ------------------------------------------------------------ operations *)

NoCall == Call("none", None, None, 0, "ok", {})

\* no __call__ has begun
NotCalled ==
    /\ npts = 0
    /\ coords = 0
    /\ chunk_no_exp = 0
    /\ chunk = 0
    /\ summed_modes = <<>>
    /\ result = None

\* __init__ up to its call of update: the attributes are stored, the private
\* attributes are None.  Only __call__ reads chunk_tmp_size, and SpecCall is where
\* it takes every value.
Init ==
    /\ pc = "new"
    /\ mode_no \in 1..MaxModeNo
    /\ chunk_tmp_size = MaxChunkTmpSize
    /\ model = None
    /\ seed = None
    /\ rng = None
    /\ z_1 = None
    /\ z_2 = None
    /\ cov_sample = None
    /\ NotCalled
    /\ nfail = 0
    /\ caller = None
    /\ last = NoCall

\* __init__'s last statement: self.update(model, seed).  When it raises, the
\* caller gets no object.
Construct ==
    /\ pc = "new"
    /\ \E m \in ModelArgs, s \in Seeds : update("init", m, s)
    /\ pc' = IF last'.out = "ok" THEN "idle" ELSE "dead"
    /\ UNCHANGED <<mode_no, chunk_tmp_size>>
    /\ UNCHANGED callvars
    /\ UNCHANGED caller

\* gen.update(model, seed)
Update ==
    /\ pc = "idle"
    /\ \E m \in ModelArgs, s \in UpdateSeeds : update("update", m, s)
    /\ UNCHANGED <<pc, mode_no, chunk_tmp_size>>
    /\ UNCHANGED callvars
    /\ UNCHANGED caller

\* gen.model = model
ModelWrite ==
    /\ pc = "idle"
    /\ \E m \in ModelArgs : update("model", m, NaN)
    /\ UNCHANGED <<pc, mode_no, chunk_tmp_size>>
    /\ UNCHANGED callvars
    /\ UNCHANGED caller

\* gen.reset_seed(seed): self._seed = np.nan, then the seed setter
ResetSeed ==
    /\ pc = "idle"
    /\ \E s \in Seeds : seed_set("reset_seed", s, NaN)
    /\ UNCHANGED <<pc, mode_no, chunk_tmp_size, model>>
    /\ UNCHANGED callvars
    /\ UNCHANGED caller

\* gen.seed = new_seed
SeedWrite ==
    /\ pc = "idle"
    /\ \E s \in Seeds : seed_set("seed", s, seed)
    /\ UNCHANGED <<pc, mode_no, chunk_tmp_size, model>>
    /\ UNCHANGED callvars
    /\ UNCHANGED caller

\* gen.mode_no = mode_no
ModeNoWrite ==
    /\ pc = "idle"
    /\ \E n \in 1..MaxModeNo : mode_no_set(n)
    /\ UNCHANGED <<pc, chunk_tmp_size, model>>
    /\ UNCHANGED callvars
    /\ UNCHANGED caller

Next ==
    \/ Construct
    \/ Update
    \/ ModelWrite
    \/ ResetSeed
    \/ SeedWrite
    \/ ModeNoWrite

Spec == Init /\ [][Next]_vars

(* -------------------------------------------------------------- __call__ *)

RECURSIVE Pow2(_)
\* 2 ** k
Pow2(k) == IF k = 0 THEN 1 ELSE 2 * Pow2(k - 1)

RECURSIVE CeilLog2(_, _, _)
\* max(0, ceil(log2(a / b))), for a >= 0 and b > 0: the least k >= 0, counted up
\* from k, with a / b <= 2 ** k
CeilLog2(a, b, k) == IF a <= b * Pow2(k) THEN k ELSE CeilLog2(a, b, k + 1)

\* a guess that cuts log2 off where the code rounds it up
ChunkNoExpTrunc(p) ==
    LET k == CeilLog2(p * mode_no, chunk_tmp_size, 0)
    IN  IF k > 0 /\ p * mode_no < chunk_tmp_size * Pow2(k) THEN k - 1 ELSE k

\* the guess of chunk_no_exp: tmp_pnt = np.prod(shape) * mode_no against chunk_tmp_size
ChunkNoExpGuess(p) == CeilLog2(p * mode_no, chunk_tmp_size, 0)

\* a chunk length that rounds down
ChunkLenFloor(chunk_no) == mode_no \div chunk_no

\* chunk_len = int(np.ceil(mode_no / chunk_no))
ChunkLen(chunk_no) == (mode_no + chunk_no - 1) \div chunk_no

\* chunk_no = 2 ** chunk_no_exp
chunk_no == Pow2(chunk_no_exp)

ch_start == chunk * ChunkLen(chunk_no)

ch_stop == (chunk + 1) * ChunkLen(chunk_no)

\* the indices of a[start:stop]: a slice ends where the array ends
Slice(a, start, stop) == {i \in 0..(a.len - 1) : start <= i /\ i < stop}

\* a phase that is computed from x alone
NeededX(dim) == 1

\* the coordinates the phase of a model of dimension `dim` is computed from
Needed(dim) == IF dim = 1 THEN 1 ELSE IF dim = 2 THEN 2 ELSE 3

\* summed_modes = np.squeeze(np.zeros(shape)), the guess of chunk_no_exp, and the
\* entry into the while loop
call_begin ==
    /\ pc = "idle"
    /\ \E p \in 1..MaxPoints, c \in 1..3 :
          /\ npts' = p
          /\ coords' = c
          /\ chunk_no_exp' = ChunkNoExpGuess(p)
    /\ chunk' = 0
    /\ summed_modes' = [i \in 0..(mode_no - 1) |-> 0]
    /\ result' = None
    /\ pc' = "try"
    /\ last' = Call("call", None, None, 0, "running", {})
    /\ UNCHANGED <<mode_no, chunk_tmp_size, model, seed, rng, z_1, z_2, cov_sample, nfail,
                   caller>>

\* the same entry into __call__, for a call with the coordinates of the call that
\* returned last, whose result the caller still holds
call_again ==
    /\ pc = "idle"
    /\ result # None
    /\ npts' = result.npts
    /\ coords' = result.coords
    /\ chunk_no_exp' = ChunkNoExpGuess(result.npts)
    /\ chunk' = 0
    /\ summed_modes' = [i \in 0..(mode_no - 1) |-> 0]
    /\ pc' = "try"
    /\ last' = Call("call", None, None, 0, "running", {})
    /\ UNCHANGED <<mode_no, chunk_tmp_size, model, seed, rng, z_1, z_2, cov_sample,
                   result, nfail,
                   caller>>

\* a pass of the for loop that multiplies the chunk of self._z_1 in place
call_chunk_in_place ==
    /\ pc = "try"
    /\ chunk < chunk_no
    /\ coords >= Needed(model.dim)
    /\ summed_modes' =
          [i \in DOMAIN summed_modes |->
              IF i \in Slice(cov_sample, ch_start, ch_stop)
                      \cap Slice(z_1, ch_start, ch_stop)
                      \cap Slice(z_2, ch_start, ch_stop)
              THEN summed_modes[i] + 1
              ELSE summed_modes[i]]
    /\ z_1' = [z_1 EXCEPT !.draw = 0]
    /\ chunk' = chunk + 1
    /\ UNCHANGED <<pc, mode_no, chunk_tmp_size, model, seed, rng, z_2, cov_sample,
                   npts, coords, chunk_no_exp, result, nfail, last,
                   caller>>

\* one pass of the for loop: the chunk's modes are added to summed_modes
call_chunk ==
    /\ pc = "try"
    /\ chunk < chunk_no
    /\ coords >= Needed(model.dim)
    /\ summed_modes' =
          [i \in DOMAIN summed_modes |->
              IF i \in Slice(cov_sample, ch_start, ch_stop)
                      \cap Slice(z_1, ch_start, ch_stop)
                      \cap Slice(z_2, ch_start, ch_stop)
              THEN summed_modes[i] + 1
              ELSE summed_modes[i]]
    /\ chunk' = chunk + 1
    /\ UNCHANGED <<pc, mode_no, chunk_tmp_size, model, seed, rng, z_1, z_2, cov_sample,
                   npts, coords, chunk_no_exp, result, nfail, last,
                   caller>>

\* the phase needs y or z and it is None: the TypeError leaves __call__
call_type_error ==
    /\ pc = "try"
    /\ chunk < chunk_no
    /\ coords < Needed(model.dim)
    /\ pc' = "idle"
    /\ last' = Call("call", None, None, 0, "TypeError", {})
    /\ UNCHANGED <<mode_no, chunk_tmp_size, model, seed, rng, z_1, z_2, cov_sample,
                   npts, coords, chunk_no_exp, chunk, summed_modes, result, nfail,
                   caller>>

\* computing a chunk raises MemoryError: chunk_no_exp += 1, and the while loop
\* starts the for loop again
call_memory_error ==
    /\ pc = "try"
    /\ chunk < chunk_no
    /\ chunk_no_exp - ChunkNoExpGuess(npts) < MaxRetries
    /\ chunk_no_exp' = chunk_no_exp + 1
    /\ chunk' = 0
    /\ UNCHANGED <<pc, mode_no, chunk_tmp_size, model, seed, rng, z_1, z_2, cov_sample,
                   npts, coords, summed_modes, result, nfail, last,
                   caller>>

\* the for loop has ended without MemoryError: break, the nugget, and the return
call_return ==
    /\ pc = "try"
    /\ chunk = chunk_no
    /\ \E g \in 1..MaxNugget :
          result' = [npts |-> npts,
                     coords |-> coords,
                     summed |-> summed_modes,
                     var |-> model.var,
                     mode_no |-> mode_no,
                     nugget |-> IF model.nugget > 0 THEN g ELSE 0]
    /\ pc' = "idle"
    /\ last' = Call("call", None, None, 0, "ok", {})
    /\ UNCHANGED <<mode_no, chunk_tmp_size, model, seed, rng, z_1, z_2, cov_sample,
                   npts, coords, chunk_no_exp, chunk, summed_modes, nfail,
                   caller>>

\* a generator as __init__(m, n, s, c) leaves it when nothing raises
Constructed(m, s, n, c) ==
    /\ pc = "idle"
    /\ mode_no = n
    /\ chunk_tmp_size = c
    /\ model = m
    /\ seed = s
    /\ rng = RNG(s)
    /\ z_1 = normal(1, RNG(s), 1, n)
    /\ z_2 = normal(1, RNG(s), 2, n)
    /\ cov_sample = spatial(1, RNG(s), m, n)
    /\ NotCalled
    /\ nfail = 0
    /\ last = Call("init", m, s, 0, "ok", ModeSet)

\* the generators that are called
InitCall ==
    \E m \in CallModels, s \in Seeds, n \in 1..MaxCallModeNo, c \in 1..MaxChunkTmpSize :
        Constructed(m, s, n, c) /\ caller = None

NextCall ==
    \/ call_begin
    \/ call_chunk
    \/ call_type_error
    \/ call_memory_error
    \/ call_return

\* the calls of a constructed generator
SpecCall == InitCall /\ [][NextCall]_vars

NextAgain ==
    \/ NextCall
    \/ call_again

\* the calls of a constructed generator, some of them with the coordinates of the
\* call before
SpecAgain == InitCall /\ [][NextAgain]_vars

\* The while loop has no bound of its own.  Of the attempts past the MaxRetries
\* that chunk_no_exp tells apart, those are followed in which the first chunk
\* raises MemoryError again: the except clause is entered ...
call_memory_error_more ==
    /\ pc = "try"
    /\ chunk = 0
    /\ chunk_no_exp - ChunkNoExpGuess(npts) = MaxRetries
    /\ pc' = "except"
    /\ UNCHANGED <<mode_no, chunk_tmp_size, model, seed, rng, z_1, z_2, cov_sample,
                   npts, coords, chunk_no_exp, chunk, summed_modes, result, nfail, last,
                   caller>>

\* ... and the while loop starts the for loop again, with chunk_no_exp kept at
\* the greatest value that is told apart, which stands for every greater one
call_except_more ==
    /\ pc = "except"
    /\ pc' = "try"
    /\ chunk' = 0
    /\ UNCHANGED <<mode_no, chunk_tmp_size, model, seed, rng, z_1, z_2, cov_sample,
                   npts, coords, chunk_no_exp, summed_modes, result, nfail, last,
                   caller>>

NextFair ==
    \/ NextCall
    \/ call_memory_error_more
    \/ call_except_more

\* the calls of a constructed generator, each of which runs on as long as it has
\* a step to take; whether a step raises MemoryError is not up to the code
SpecFair == InitCall /\ [][NextFair]_vars /\ WF_vars(NextFair)

\* what __init__ leaves under Spec is a generator as SpecCall begins with
InitGivesConstructed ==
    (pc = "idle" /\ last.op = "init") =>
        Constructed(model, seed, mode_no, chunk_tmp_size)

(* --------------------------------------------------- the caller's object *)

\* the CovModel object a caller holds, with the value `m`
Ref(m) == [cls |-> "ref", obj |-> m, snapshot |-> FALSE]

\* self._model = model: the snapshot is the caller's object itself
no_copy(c) == [c EXCEPT !.snapshot = TRUE]

\* self._model = dcp(model): the snapshot is a new object, the caller's is not it
dcp(c) == [c EXCEPT !.snapshot = FALSE]

\* gen.update(m, seed) with the object m the caller holds
UpdateHeld ==
    /\ pc = "idle"
    /\ caller # None
    /\ \E s \in UpdateSeeds : update("update", caller.obj, s)
    /\ caller' = IF model # caller.obj THEN dcp(caller) ELSE caller
    /\ UNCHANGED <<pc, mode_no, chunk_tmp_size>>
    /\ UNCHANGED callvars

\* the caller sets attributes of its object, m.len_scale = ... and the like; an
\* object that is the snapshot takes the snapshot with it
CallerChange ==
    /\ pc = "idle"
    /\ caller # None
    /\ \E m \in CovModels \ {caller.obj} :
          /\ caller' = [caller EXCEPT !.obj = m]
          /\ model' = IF caller.snapshot THEN m ELSE model
          /\ last' = Call("change", m, None, 0, "ok", {})
    /\ UNCHANGED <<pc, mode_no, chunk_tmp_size, seed, rng, z_1, z_2, cov_sample, nfail>>
    /\ UNCHANGED callvars

\* the generators a caller has made from an object it goes on holding
InitHeld ==
    \E m \in CovModels, s \in Seeds, n \in 1..MaxModeNo :
        Constructed(m, s, n, MaxChunkTmpSize) /\ caller = dcp(Ref(m))

\* the writes of the seed and of the mode number leave the caller's object alone
NextHeld ==
    \/ UpdateHeld
    \/ CallerChange
    \/ ResetSeed
    \/ ModeNoWrite

SpecHeld == InitHeld /\ [][NextHeld]_vars

(* ---------------------------------------------------------------- claims *)

\* what a caller can read of the generator's configuration and modes
Observed == <<model, seed, mode_no, z_1, z_2, cov_sample>>

\* the step is a call `op` of a constructed generator
Called(op) == pc = "idle" /\ last'.op = op

\* the ModeSet is the one a run of _set_seed without error makes from (s, mdl, n)
FreshModeSet(s, mdl, n) ==
    /\ z_1' = normal(1, RNG(s), 1, n)
    /\ z_2' = normal(1, RNG(s), 2, n)
    /\ cov_sample' = spatial(1, RNG(s), mdl, n)
    /\ last'.rebound = ModeSet

\* C1: update(model, np.nan) with a model equal to the stored snapshot changes
\* nothing: snapshot, seed, mode number and the three arrays stay the same objects.
C1_NoOpUpdate ==
    [][(Called("update") /\ last'.seed = NaN /\ last'.model = model)
          => (UNCHANGED Observed /\ last'.rebound = {} /\ last'.out = "ok")]_vars

C1_Witness ==
    /\ pc = "idle" /\ last.op = "update" /\ last.seed = NaN /\ last.model = model
    /\ last.out = "ok" /\ last.rebound = {}

\* C2: update(model, s) with an explicit seed s (an int or None) and a valid model
\* always stores s and makes a new ModeSet, also when the model equals the snapshot.
C2_ExplicitSeedResamples ==
    [][(Called("update") /\ last'.seed # NaN /\ IsCovModel(last'.model)
           /\ last'.out = "ok")
          => (seed' = last'.seed /\ last'.rebound = ModeSet)]_vars

\* C3: update(model, np.nan) with a valid model that differs from the snapshot
\* stores the model, keeps the seed, and makes the whole ModeSet anew from it.
C3_UpdateKeepsSeed ==
    [][(Called("update") /\ last'.seed = NaN /\ IsCovModel(last'.model)
           /\ last'.model # model /\ last'.out = "ok")
          => (/\ model' = last'.model
              /\ seed' = seed
              /\ mode_no' = mode_no
              /\ FreshModeSet(seed, last'.model, mode_no))]_vars

C3_Witness ==
    /\ pc = "idle" /\ last.op = "update" /\ last.seed = NaN /\ last.model = model
    /\ last.out = "ok" /\ last.rebound = ModeSet /\ seed # None

\* C4: between two calls of a constructed generator, also after a call that ended
\* with an error of the random source, the three arrays have mode_no entries each
\* and are of one run of _set_seed.
C4_ModeSetCoherent ==
    pc = "idle" =>
        /\ z_1.len = mode_no /\ z_2.len = mode_no /\ cov_sample.len = mode_no
        /\ z_1.run = z_2.run /\ z_2.run = cov_sample.run

\* C5: reset_seed(seed) that returns has stored the seed and made a new ModeSet,
\* whatever the seed, the stored one included.
C5_ResetSeedResamples ==
    [][(Called("reset_seed") /\ last'.out = "ok")
          => (/\ seed' = last'.seed
              /\ UNCHANGED <<model, mode_no>>
              /\ FreshModeSet(last'.seed, model, mode_no))]_vars

C5_Witness ==
    /\ pc = "idle" /\ last.op = "reset_seed" /\ last.out = "ok"
    /\ last.seed = seed /\ last.rebound = ModeSet

\* C6: writing the seed property samples exactly when the new value differs from
\* the stored one: an equal value leaves seed and ModeSet as they are, another
\* value is stored and the ModeSet made anew.
C6_SeedWriteIffDiffers ==
    [][(Called("seed") /\ last'.out = "ok")
          => IF last'.seed = seed
             THEN UNCHANGED Observed /\ last'.rebound = {}
             ELSE seed' = last'.seed /\ last'.rebound = ModeSet]_vars

\* C7: between two calls of a constructed generator, also after a call that ended
\* with an error, the stored seed is an int or None, never np.nan.
C7_SeedNeverNaN == pc = "idle" => seed \in Seeds

C7_Witness ==
    pc = "idle" /\ last.op = "reset_seed" /\ last.out = "RandomError" /\ seed \in Seeds

\* C8: update, the model setter and __init__ given an object that is no CovModel
\* end with a ValueError; a constructed generator keeps its snapshot, seed, mode
\* number and ModeSet, and __init__ gives no generator.
C8_InvalidModelRejected ==
    [][(last'.op \in {"init", "update", "model"}
           /\ ~IsCovModel(last'.model))
          => (/\ last'.out = "ValueError"
              /\ UNCHANGED Observed
              /\ last'.rebound = {}
              /\ pc' = IF pc = "new" THEN "dead" ELSE pc)]_vars

C8_Witness ==
    /\ pc = "idle" /\ last.op \in {"update", "model"} /\ last.model = NotAModel
    /\ last.out = "ValueError" /\ IsCovModel(model)

\* C9: a call that meets no MemoryError adds every mode exactly once, whatever
\* chunk_tmp_size, the number of points and the mode number are: its chunks,
\* [chunk * chunk_len, (chunk + 1) * chunk_len) cut at the end of the arrays, hold
\* each index 0..mode_no-1 once.
C9_EachModeOnce ==
    (pc = "idle" /\ last.op = "call" /\ last.out = "ok"
        /\ chunk_no_exp = ChunkNoExpGuess(npts))
    => /\ DOMAIN summed_modes = 0..(mode_no - 1)
       /\ \A i \in DOMAIN summed_modes : summed_modes[i] = 1
       /\ result.summed = summed_modes

C9_Witness ==
    /\ pc = "idle" /\ last.op = "call" /\ last.out = "ok"
    /\ chunk_no_exp = ChunkNoExpGuess(npts)
    /\ chunk_no > 1 /\ chunk_no * ChunkLen(chunk_no) > mode_no
    /\ ChunkLen(chunk_no) > 1
    /\ \A i \in DOMAIN summed_modes : summed_modes[i] = 1

\* C10: writing the mode number n, when it returns, has kept the seed, stored n,
\* and made the whole ModeSet anew with n entries in each array.
C10_ModeNoWriteResamples ==
    [][(Called("mode_no") /\ last'.out = "ok")
          => (/\ seed' = seed
              /\ model' = model
              /\ mode_no' = last'.n
              /\ z_1'.len = last'.n /\ z_2'.len = last'.n /\ cov_sample'.len = last'.n
              /\ FreshModeSet(seed, model, last'.n))]_vars

C10_Witness ==
    /\ pc = "idle" /\ last.op = "mode_no" /\ last.out = "ok" /\ last.n = mode_no
    /\ z_1.len = mode_no /\ cov_sample.len = mode_no /\ last.rebound = ModeSet

\* C11: with a nugget of 0, a call that returns with the coordinates of the call
\* that returned before it, on the same generator, returns the same result,
\* whatever MemoryErrors either call has met.
C11_SameResultAgain ==
    [][(pc = "try" /\ pc' = "idle" /\ last'.out = "ok" /\ result # None
           /\ model.nugget = 0 /\ result.npts = npts /\ result.coords = coords)
          => result' = result]_vars

\* C12: after a MemoryError the next attempt starts from chunk 0 with summed_modes
\* empty, so that a call that returns has added every mode exactly once, also
\* when the error came after chunks had been added.
C12_RetryStartsEmpty ==
    /\ (pc = "try" /\ chunk = 0) => \A i \in DOMAIN summed_modes : summed_modes[i] = 0
    /\ (pc = "idle" /\ last.op = "call" /\ last.out = "ok")
          => \A i \in DOMAIN summed_modes : summed_modes[i] = 1

\* C13: every call ends, with a result or with an error, also when every attempt
\* raises MemoryError.
C13_CallEnds == (pc = "try") ~> (pc = "idle")

\* C14: the first attempt has chunk_no = 2 ** k for the least k >= 0 with
\* npts * mode_no / chunk_tmp_size <= 2 ** k, every attempt after a MemoryError
\* has twice the chunk_no of the attempt before, and the chunks of an attempt
\* are ceil(mode_no / chunk_no) long.
C14_ChunkCount ==
    [][/\ (pc = "idle" /\ pc' = "try")
            => /\ npts' * mode_no <= chunk_tmp_size * Pow2(chunk_no_exp')
               /\ chunk_no_exp' > 0
                     => npts' * mode_no > chunk_tmp_size * Pow2(chunk_no_exp' - 1)
       /\ (pc = "try" /\ pc' = "try" /\ chunk_no_exp' # chunk_no_exp)
            => chunk_no' = 2 * chunk_no
       /\ (pc' = "try")
            => /\ chunk_no' * (ch_stop' - ch_start') >= mode_no
               /\ chunk_no' * (ch_stop' - ch_start' - 1) < mode_no]_vars

C14_Witness ==
    /\ pc = "try" /\ chunk_no_exp = ChunkNoExpGuess(npts) + 1
    /\ ChunkNoExpGuess(npts) > 0 /\ chunk_no * (ch_stop - ch_start) > mode_no
    /\ npts * mode_no < chunk_tmp_size * Pow2(ChunkNoExpGuess(npts))

\* C15: in the first attempt of a call the intermediate array of a chunk, npts
\* times chunk_len, is within chunk_tmp_size.
C15_ChunkWithinCap ==
    (pc = "try" /\ chunk_no_exp = ChunkNoExpGuess(npts))
        => npts * ChunkLen(chunk_no) <= chunk_tmp_size

\* C16: no step of __call__, whether the call returns, raises or starts again
\* after a MemoryError, changes the snapshot, the seed, the mode number,
\* chunk_tmp_size or one of the three arrays.
C16_CallKeepsGenerator ==
    [][UNCHANGED <<model, seed, mode_no, chunk_tmp_size, z_1, z_2, cov_sample>>]_vars

C16_Witness ==
    /\ pc = "idle" /\ last.op = "call" /\ last.out = "ok"
    /\ chunk_no_exp > ChunkNoExpGuess(npts) /\ result # None
    /\ z_1 = normal(1, RNG(seed), 1, mode_no)

\* C17: whenever the stored seed is an int s, the ModeSet is the one __init__ with
\* the snapshot, the mode number and s makes, whatever calls led to the state.
C17_ModeSetOfSeed ==
    (pc = "idle" /\ seed \in Seeds \ {None})
        => /\ z_1 = normal(1, RNG(seed), 1, mode_no)
           /\ z_2 = normal(1, RNG(seed), 2, mode_no)
           /\ cov_sample = spatial(1, RNG(seed), model, mode_no)

\* C19 as stated: a call with fewer coordinates than the snapshot's dim ends with
\* a TypeError in its first attempt; it never starts again, returns no result and
\* adds nothing.
C19_ArgumentErrorAtOnce ==
    /\ (pc = "try" /\ coords < model.dim)
          => chunk_no_exp = ChunkNoExpGuess(npts) /\ chunk = 0
    /\ (pc = "idle" /\ last.op = "call" /\ coords < model.dim)
          => last.out = "TypeError" /\ result = None

\* C19 as amended: a call with fewer coordinates than the snapshot's dim adds no
\* chunk and returns no result; each of its steps either ends it with a
\* TypeError, which the except clause does not catch, or is a MemoryError that
\* starts the next attempt; the generator stays as it is.
C19_ArgumentErrorSurfaces ==
    [][(pc = "try" /\ coords < model.dim)
          => /\ UNCHANGED <<model, seed, mode_no, chunk_tmp_size, z_1, z_2, cov_sample>>
             /\ UNCHANGED <<summed_modes, result>>
             /\ result = None
             /\ \A i \in DOMAIN summed_modes : summed_modes[i] = 0
             /\ \/ pc' = "idle" /\ last'.out = "TypeError"
                \/ pc' = "try" /\ chunk_no_exp' = chunk_no_exp + 1 /\ chunk' = 0]_vars

C19_Witness ==
    /\ pc = "idle" /\ last.op = "call" /\ last.out = "TypeError"
    /\ coords < model.dim /\ model.dim = 3 /\ coords = 2
    /\ chunk_no_exp > ChunkNoExpGuess(npts) /\ result = None

\* C18: the snapshot is a copy of its own.  When the caller changes the object it
\* passed to update, snapshot, seed, mode number and ModeSet stay as they are;
\* update(m, np.nan) with the changed object, when it returns, has stored the new
\* value and made the ModeSet anew.
C18_SnapshotIsCopy ==
    [][/\ last'.op = "change" => UNCHANGED Observed
       /\ (last.op = "change" /\ model # caller.obj
              /\ Called("update") /\ last'.model = caller.obj
              /\ last'.seed = NaN /\ last'.out = "ok")
            => /\ model' = caller.obj
               /\ model' # model
               /\ FreshModeSet(seed, caller.obj, mode_no)]_vars

C18_Witness ==
    /\ pc = "idle" /\ last.op = "update" /\ last.seed = NaN /\ last.out = "ok"
    /\ caller # None /\ last.model = caller.obj /\ model = caller.obj
    /\ ~caller.snapshot /\ last.rebound = ModeSet

====
